---- MODULE Spec2Model ----
(***************************************************************************)
(* base-routes: the handle / handleOnce / handleError dispatcher of        *)
(* index.js, as a state machine.  A host ("app", or the collection         *)
(* "pages") owns a lazily created router; files are dispatched through it  *)
(* verb by verb; middleware runs one step at a time and completes by       *)
(* calling the continuation it was given.                                  *)
(***************************************************************************)
EXTENDS Integers, Sequences, FiniteSets, TLC

\* ------------------------------------------------------------- bounds
MaxCalls == 2      \* caller-issued handle / handleOnce / handleError calls
MaxErrs  == 2      \* error objects that exist in one run
MaxStack == 1      \* middleware registered per host, path and verb by all()
MaxHandlers == 2   \* middleware per host, path and verb, verb methods included
MaxRouteCalls == 1 \* dispatches followed while routes are being registered

\* ------------------------------------------------------------- universe
Hosts   == {"app", "pages"}
Callers == {"app"}     \* callers dispatch through the app; it reaches "pages"
Verbs   == {"onLoad", "preRender"}
Paths   == {"a.md"}
FileIds == {1}
CustomVerbs == {"onFoo"}           \* a verb name added with handlers()
VerbNames == Verbs \cup CustomVerbs
ParamNames == {"id"}
Middleware == {"fn", "h1", "h2"}   \* the middleware functions
ErrIds  == 1..MaxErrs

VARIABLES
  isTemplates,      \* app.isTemplates: the app is templates-capable
  router,           \* per host: the lazily created router
  hostMethods,      \* per host: the verb names that are methods of the host
  files,            \* per file: path, options{handled, method, collection}
  errs,             \* the error objects
  pending,          \* router dispatches that have not called back yet
  calls,            \* one record per caller-issued call, in order
  heTrace,          \* the handleError callbacks invoked by the last step
  raised            \* what the last step raised to its caller

vars == <<isTemplates, router, hostMethods, files, errs, pending, calls, heTrace, raised>>

\* ------------------------------------------------------------- host flags
\* A collection is templates-capable and flags itself as a collection.
IsTemplates(h) == IF h = "app" THEN isTemplates ELSE TRUE
IsCollection(h) == h = "pages"

\* ------------------------------------------------------------- values
NoErr == 0
\* The argument lists a continuation is called with.
ArgsNone       == [argc |-> 0, err |-> NoErr, file |-> 0]   \* next()
ArgsErr(e)     == [argc |-> 1, err |-> e, file |-> 0]       \* next(err)
ArgsOk(f)      == [argc |-> 2, err |-> NoErr, file |-> f]   \* next(null, file)

NoReason == <<>>
FreshErr == [alloc |-> FALSE, isRef |-> FALSE, handled |-> FALSE,
             source |-> "none", reason |-> NoReason, file |-> 0]

\* A callable is a chain of frames: the head is the function, the tail the
\* continuation it closes over.  <<>> is "not a function".
Frame(kind, call, host, verb, file) ==
  [kind |-> kind, call |-> call, host |-> host, verb |-> verb, file |-> file]
NotCallable == <<>>

\* What the surroundings answer during one step: whether file.next is a
\* function when it is read, which hosts have an 'error' listener when
\* hasListeners is asked, and what each call of rethrow does.
Env(fileNext, listeners, rethrows) ==
  [fileNext |-> fileNext, listeners |-> listeners, rethrows |-> rethrows]
Quiet == Env(FALSE, {}, <<>>)

\* The working state the operations below transform.
State(env) ==
  [router |-> router, files |-> files, errs |-> errs, pending |-> pending,
   calls |-> calls, heTrace |-> <<>>, raised |-> "none",
   fileNext |-> env.fileNext, listeners |-> env.listeners,
   oracle |-> env.rethrows, ok |-> TRUE]

\* ------------------------------------------------------------- lazyRouter
\* instance counts the routers the host has constructed; routes holds, per
\* path and verb, the middleware registered for it, in order.
NoRouter == [created |-> FALSE,
             instance |-> 0,
             methods |-> {},
             params |-> {},
             routes |-> [p \in Paths |-> [v \in VerbNames |-> <<>>]]]
NewRouter == [NoRouter EXCEPT !.created = TRUE, !.methods = Verbs]

\* A lazyRouter that constructs a router on every call.
lazyRouterAnew(r) == [NewRouter EXCEPT !.instance = r.instance + 1]

\* lazyRouter(), lines 32-34: the router is constructed when there is none.
lazyRouter(r) ==
  IF r.created THEN r ELSE [NewRouter EXCEPT !.instance = r.instance + 1]

\* The methods argument of lazyRouter and handlers: one name or an array.
Name(n) == [isArray |-> FALSE, items |-> <<n>>]
Names(seq) == [isArray |-> TRUE, items |-> seq]
Undefined == [isArray |-> FALSE, items |-> <<>>]
arrayify(m) == m.items
Range(seq) == {seq[i] : i \in DOMAIN seq}

\* lazyRouter(methods), lines 31-38: with methods given, router.method(methods)
\* makes the names verbs of the router.
lazyRouterMethods(r, m) ==
  IF m = Undefined THEN lazyRouter(r)
  ELSE [lazyRouter(r) EXCEPT !.methods = @ \cup Range(arrayify(m))]

\* router.handle(file, done): the middleware the dispatch will run is the
\* stack of the route matching file.path for the verb in file.options.method.
StackFor(r, file) == Len(r.routes[file.path][file.method])


\* ------------------------------------------------------------- files
\* A file whose options object is absent has none of its fields.
NoOptions(path) ==
  [path |-> path, hasOptions |-> FALSE,
   optionsObj |-> "absent", hasHandled |-> FALSE, handled |-> <<>>,
   method |-> "none", collection |-> "none"]
WithOptions(path, coll) ==
  [path |-> path, hasOptions |-> TRUE,
   optionsObj |-> "callers", hasHandled |-> FALSE, handled |-> <<>>,
   method |-> "none", collection |-> coll]
FileShapes ==
  {NoOptions(p) : p \in Paths} \cup
  {WithOptions(p, c) : p \in Paths, c \in {"none", "pages"}}

\* A handle that replaces file.options with a new object on every call.
RecordVerbFresh(file, verb) ==
  [file EXCEPT !.hasOptions = TRUE,
               !.optionsObj = "created",
               !.collection = "none",
               !.hasHandled = TRUE,
               !.handled = <<verb>>,
               !.method = verb]

\* A handle that appends the verb only when options.handled lacks it.
RecordVerbOnce(file, verb) ==
  LET old == IF file.hasHandled THEN file.handled ELSE <<>>
  IN [file EXCEPT !.hasOptions = TRUE,
                  !.optionsObj = IF file.hasOptions THEN @ ELSE "created",
                  !.hasHandled = TRUE,
                  !.handled = IF \E i \in 1..Len(old) : old[i] = verb
                              THEN old ELSE Append(old, verb),
                  !.method = verb]

\* A handle that sets options.method and leaves options.handled as it is.
RecordVerbNoPush(file, verb) ==
  [file EXCEPT !.hasOptions = TRUE,
               !.optionsObj = IF file.hasOptions THEN @ ELSE "created",
               !.hasHandled = TRUE,
               !.handled = IF file.hasHandled THEN @ ELSE <<>>,
               !.method = verb]

\* handle, lines 66-73: options and options.handled are created when absent,
\* then the verb is recorded as the method and appended to handled.
RecordVerb(file, verb) ==
  [file EXCEPT !.hasOptions = TRUE,
               !.optionsObj = IF file.hasOptions THEN @ ELSE "created",
               !.hasHandled = TRUE,
               !.handled = Append(IF file.hasHandled THEN @ ELSE <<>>, verb),
               !.method = verb]

\* A line 81 that does not ask whether the host is itself a collection.
IsDirectLoose(h, file) ==
  ~IsTemplates(h) \/ file.collection = "none"

\* handle, line 81: the dispatch is direct unless the host is templates-capable,
\* is not a collection, and the file names a collection.
IsDirect(h, file) ==
  ~IsTemplates(h) \/ IsCollection(h) \/ file.collection = "none"

\* A handleOnce that never finds the verb in handled.
AlwaysDispatch(file, verb) == TRUE

\* handleOnce, line 123: the verb has not been handled on this file yet.
NotYetHandled(file, verb) ==
  \A i \in 1..Len(file.handled) : file.handled[i] # verb

\* ------------------------------------------------------------- calls
NewCall(op, h, verb, f, hasCb) ==
  [op |-> op, host |-> h, verb |-> verb, file |-> f, hasCb |-> hasCb,
   hadHandled |-> files[f].hasHandled, \* options.handled existed at the call
   threw |-> "none",      \* what was raised while the call was served
   handles |-> 0,         \* handle invocations made for this call
   dispatches |-> 0,      \* router dispatches started for this call
   events |-> <<>>,       \* verb events emitted, as <<host, verb>>
   emitSaw |-> <<>>,      \* per verb event: options.handled as listeners saw it
   twoPhase |-> FALSE,    \* handle took the two-phase branch
   hostStack |-> 0,       \* middleware the host dispatch had to run
   mwHost |-> 0,          \* middleware run by the host's (or the only) dispatch
   mwColl |-> 0,          \* middleware run by the collection's dispatch
   hostDone |-> FALSE,    \* the host router called its completion callback
   hostErr |-> NoErr,     \* the error the host router completed with
   collStarted |-> FALSE, \* the named collection's handle was invoked
   collErr |-> NoErr,     \* the error the collection router completed with
   stale |-> FALSE,       \* a router completed with an error already handled
   normalized |-> <<>>,   \* <<host, err>> per handleError callback invoked
   fallbackRan |-> FALSE, \* the synthesized fallback was invoked
   fallbackErr |-> NoErr, \* the error the fallback was invoked with
   cbArgs |-> <<>>]       \* the argument lists the caller's callback got

RECURSIVE Handle(_, _, _, _, _, _, _)
RECURSIVE Invoke(_, _, _)
RECURSIVE InvokeAll(_, _, _)

\* handle, lines 82 and 89: router.handle(file, done) starts a dispatch that
\* calls done when its middleware has run.
StartDispatch(s, k, h, f, phase, done) ==
  LET file == s.files[f]
      n == StackFor(s.router[h], file)
      d == [call |-> k, host |-> h, phase |-> phase, file |-> f,
            verb |-> file.method, todo |-> n, done |-> done]
  IN [s EXCEPT !.pending = @ \cup {d},
               !.calls[k].dispatches = @ + 1,
               !.calls[k].hostStack = IF phase = "coll" THEN @ ELSE n]

\* A two-phase dispatch that does not wait for the host router: it hands the
\* file to the collection while the host's middleware is still running.
TwoPhaseEager(s, k, h, verb, f, cb) ==
  Handle(StartDispatch([s EXCEPT !.calls[k].twoPhase = TRUE], k, h, f, "host", cb),
         k, s.files[f].collection, verb, f, cb, TRUE)

\* handle, lines 86-95: the host's routes first; the callback given to the
\* host router forwards an error to cb, and otherwise hands the file to the
\* collection named by file.options.collection.
TwoPhase(s, k, h, verb, f, cb) ==
  StartDispatch([s EXCEPT !.calls[k].twoPhase = TRUE], k, h, f, "host",
                <<Frame("inner", k, s.files[f].collection, verb, f)>> \o cb)

\* handle, line 74: this.emit(method, file); the listeners see the file as
\* the lines above left it.
EmitVerb(s, k, h, verb, f) ==
  [s EXCEPT !.calls[k].events = Append(@, <<h, verb>>),
            !.calls[k].emitSaw = Append(@, s.files[f].handled)]

\* handle, lines 54-96.
Handle(s, k, h, verb, f, next, nested) ==
  LET nxt == IF next = NotCallable
             THEN <<Frame("fallback", k, h, verb, f)>> ELSE next
      s1 == [s EXCEPT !.router[h] = lazyRouter(@),
                      !.files[f] = RecordVerb(@, verb),
                      !.calls[k].handles = @ + 1,
                      !.calls[k].collStarted = @ \/ nested]
      s2 == EmitVerb(s1, k, h, verb, f)
      cb == <<Frame("herr", k, h, verb, f)>> \o nxt
  IN IF IsDirect(h, s2.files[f])
     THEN StartDispatch(s2, k, h, f, IF nested THEN "coll" ELSE "direct", cb)
     ELSE TwoPhase(s2, k, h, verb, f, cb)


\* ------------------------------------------------------------- handleError
\* handleError, line 137: next = next || file.next.
ResolveNext(nx, fr, hasFileNext) ==
  IF nx # NotCallable THEN nx
  ELSE IF hasFileNext
       THEN <<Frame("fileNext", fr.call, fr.host, fr.verb, fr.file)>>
       ELSE NotCallable

\* A handleError that does not look at err._handled.
NeverHandled(err) == FALSE

\* handleError, line 144: err._handled === true.
AlreadyHandled(err) == err.handled

\* handleError, lines 149-152: the first sighting marks the error and sets
\* source (second line of its stack), reason (host#handle("verb"): path), file.
\* Errors are Error objects, whose stack has a second line to read.  (The
\* test of next at line 158 repeats the one at line 139 and never fires.)
Enrich(err, fr, file) ==
  [err EXCEPT !.handled = TRUE,
              !.source = "stack[1]",
              !.reason = <<fr.host, fr.verb, file.path>>,
              !.file = fr.file]

\* template-error's rethrow(content, data) either returns or throws a new error.
RethrowOutcomes == {"ret", "throwErr", "throwRef"}
Throws(outcome) == outcome \in {"throwErr", "throwRef"}
FreeErr(es) ==
  IF \E e \in ErrIds : ~es[e].alloc
  THEN CHOOSE e \in ErrIds : ~es[e].alloc /\ \A x \in ErrIds : x < e => es[x].alloc
  ELSE NoErr

\* A handleError that tries rethrow for every error.
RethrowAlways(s, err) ==
  IF s.oracle = <<>> THEN "ret" ELSE Head(s.oracle)

\* handleError, line 162: rethrow is tried for a ReferenceError only.
RethrowOutcome(s, err) ==
  IF ~err.isRef THEN "no"
  ELSE IF s.oracle = <<>> THEN "ret" ELSE Head(s.oracle)

\* A handleError that calls next(err) a second time.
NextCallsTwice(e, thrown) ==
  IF thrown # NoErr THEN <<ArgsErr(thrown), ArgsErr(thrown)>>
  ELSE <<ArgsErr(e), ArgsErr(e)>>

\* A handleError whose catch block does not return: next(e) then next(err).
NextCallsNoReturn(e, thrown) ==
  IF thrown # NoErr THEN <<ArgsErr(thrown), ArgsErr(e)>> ELSE <<ArgsErr(e)>>

\* handleError, lines 162-172: the calls made to next for a first-seen error e,
\* where thrown is the error rethrow threw (NoErr when it did not throw).
NextCallsOnError(e, thrown) ==
  IF thrown # NoErr THEN <<ArgsErr(thrown)>> ELSE <<ArgsErr(e)>>

\* What one invocation of a handleError callback did: the error as it was
\* before and after, the calls made to next, whether 'error' was emitted,
\* what rethrow did ("no" when it was not called) and the error it threw.
HeRecord(s, fr, arg, resolvable) ==
  LET old == IF arg.err = NoErr THEN FreshErr ELSE s.errs[arg.err]
  IN [call |-> fr.call, host |-> fr.host, verb |-> fr.verb, file |-> fr.file,
      path |-> s.files[fr.file].path,
      err |-> arg.err, resolvable |-> resolvable,
      before |-> old, after |-> old, nextArgs |-> <<>>,
      emitted |-> FALSE, rethrow |-> "no", thrown |-> NoErr]

\* A handleError that tests next only where line 158 does: after the error
\* has been marked and enriched.
RaiseAfterEnrich(s, rec) ==
  IF rec.err = NoErr \/ rec.before.handled
  THEN [s EXCEPT !.raised = "TypeError", !.heTrace = Append(@, rec)]
  ELSE LET new == [rec.before EXCEPT !.handled = TRUE,
                                     !.source = "stack[1]",
                                     !.reason = <<rec.host, rec.verb, rec.path>>,
                                     !.file = rec.file]
       IN [s EXCEPT !.raised = "TypeError",
                    !.errs[rec.err] = new,
                    !.heTrace = Append(@, [rec EXCEPT !.after = new])]

\* handleError, lines 139-141: no callable next, the callback raises a
\* TypeError before it looks at err.
RaiseNoCallback(s, rec) ==
  [s EXCEPT !.raised = "TypeError", !.heTrace = Append(@, rec)]

\* handleError, lines 136-175: the callback it returns, called with arg.
HandleErrorCallback(s0, fr, nx, arg) ==
  LET file == s0.files[fr.file]
      next == ResolveNext(nx, fr, s0.fileNext)
      rec  == HeRecord(s0, fr, arg, next # NotCallable)
      s == [s0 EXCEPT !.calls[fr.call].normalized = Append(@, <<fr.host, arg.err>>)]
  IN IF next = NotCallable
     THEN RaiseNoCallback(s, rec)
     ELSE IF arg.err = NoErr
     THEN InvokeAll([s EXCEPT !.heTrace =
                        Append(@, [rec EXCEPT !.nextArgs = <<ArgsOk(fr.file)>>])],
                    next, <<ArgsOk(fr.file)>>)
     ELSE LET e == arg.err
              old == s.errs[e]
          IN IF AlreadyHandled(old)
             THEN InvokeAll([s EXCEPT !.heTrace =
                               Append(@, [rec EXCEPT !.nextArgs = <<ArgsNone>>])],
                            next, <<ArgsNone>>)
             ELSE LET new == Enrich(old, fr, file)
                      out == RethrowOutcome(s, new)
                      t == IF Throws(out) THEN FreeErr(s.errs) ELSE NoErr
                      todo == NextCallsOnError(e, t)
                      es == IF t = NoErr THEN [s.errs EXCEPT ![e] = new]
                            ELSE [s.errs EXCEPT ![e] = new,
                                   ![t] = [FreshErr EXCEPT !.alloc = TRUE,
                                                          !.isRef = (out = "throwRef")]]
                  IN IF Throws(out) /\ t = NoErr
                     THEN [s EXCEPT !.ok = FALSE]
                     ELSE InvokeAll(
                            [s EXCEPT !.errs = es,
                                      !.oracle = IF out = "no" \/ @ = <<>> THEN @ ELSE Tail(@),
                                      !.heTrace = Append(@,
                                         [rec EXCEPT !.after = new,
                                                     !.nextArgs = todo,
                                                     !.emitted = fr.host \in s.listeners,
                                                     !.rethrow = out, !.thrown = t])],
                            next, todo)

\* handle, lines 59-63: the fallback used when no callback was given.  It
\* builds a handleError callback around "throw err" and does not call it.
Fallback(s, fr, arg) ==
  [s EXCEPT !.calls[fr.call].fallbackRan = TRUE,
            !.calls[fr.call].fallbackErr = arg.err]

\* An inner callback that does not return after cb(err).
InnerNoReturn(s, fr, nx, arg) ==
  Handle(IF arg.err # NoErr THEN Invoke(s, nx, ArgsErr(arg.err)) ELSE s,
         fr.call, fr.host, fr.verb, fr.file, nx, TRUE)

\* An inner callback that drops the host router's error instead of passing it
\* to cb.
InnerDrop(s, fr, nx, arg) ==
  IF arg.err # NoErr
  THEN s
  ELSE Handle(s, fr.call, fr.host, fr.verb, fr.file, nx, TRUE)

\* An inner callback that takes the verb back out of options.handled when the
\* host router reports an error.
InnerForget(s, fr, nx, arg) ==
  IF arg.err # NoErr
  THEN Invoke([s EXCEPT !.files[fr.file].handled = SubSeq(@, 1, Len(@) - 1)],
              nx, ArgsErr(arg.err))
  ELSE Handle(s, fr.call, fr.host, fr.verb, fr.file, nx, TRUE)

\* handle, lines 89-95: the callback the host router gets in two-phase dispatch.
InnerCallback(s, fr, nx, arg) ==
  IF arg.err # NoErr
  THEN Invoke(s, nx, ArgsErr(arg.err))
  ELSE Handle(s, fr.call, fr.host, fr.verb, fr.file, nx, TRUE)

\* Calling a callable with an argument list.
Invoke(s, c, arg) ==
  IF ~s.ok THEN s
  ELSE IF c = NotCallable THEN [s EXCEPT !.raised = "TypeError"]
  ELSE LET fr == Head(c)
           nx == Tail(c)
       IN CASE fr.kind \in {"user", "fileNext"} ->
                 [s EXCEPT !.calls[fr.call].cbArgs = Append(@, arg)]
            [] fr.kind = "fallback" -> Fallback(s, fr, arg)
            [] fr.kind = "inner" -> InnerCallback(s, fr, nx, arg)
            [] fr.kind = "herr" -> HandleErrorCallback(s, fr, nx, arg)

InvokeAll(s, c, argsSeq) ==
  IF argsSeq = <<>> \/ s.raised # "none" \/ ~s.ok THEN s
  ELSE InvokeAll(Invoke(s, c, Head(argsSeq)), c, Tail(argsSeq))

\* A handleOnce that records the verb again when it skips the dispatch.
HandleOnceAppend(s, k, h, verb, f, next) ==
  LET file == s.files[f]
  IN IF ~file.hasOptions
     THEN [s EXCEPT !.raised = "TypeError", !.calls[k].threw = "TypeError"]
     ELSE LET s1 == [s EXCEPT !.files[f].hasHandled = TRUE]
              s2 == [s1 EXCEPT !.files[f] = RecordVerb(@, verb)]
              nxt == IF next # NotCallable THEN next
                     ELSE IF s.fileNext
                          THEN <<Frame("fileNext", k, h, verb, f)>>
                          ELSE NotCallable
          IN IF NotYetHandled(s1.files[f], verb)
             THEN Handle(s1, k, h, verb, f, nxt, FALSE)
             ELSE IF nxt = NotCallable
                  THEN [s2 EXCEPT !.raised = "TypeError",
                                  !.calls[k].threw = "TypeError"]
                  ELSE Invoke(s2, nxt, ArgsOk(f))

\* handleOnce, lines 114-128.
HandleOnce(s, k, h, verb, f, next) ==
  LET file == s.files[f]
  IN IF ~file.hasOptions
     THEN [s EXCEPT !.raised = "TypeError", !.calls[k].threw = "TypeError"]
     ELSE LET s1 == [s EXCEPT !.files[f].hasHandled = TRUE]
              nxt == IF next # NotCallable THEN next
                     ELSE IF s.fileNext
                          THEN <<Frame("fileNext", k, h, verb, f)>>
                          ELSE NotCallable
          IN IF NotYetHandled(s1.files[f], verb)
             THEN Handle(s1, k, h, verb, f, nxt, FALSE)
             ELSE IF nxt = NotCallable
                  THEN [s1 EXCEPT !.raised = "TypeError",
                                  !.calls[k].threw = "TypeError"]
                  ELSE Invoke(s1, nxt, ArgsOk(f))

\* ------------------------------------------------------------- actions
Init ==
  /\ isTemplates \in BOOLEAN
  /\ router = [h \in Hosts |-> NoRouter]
  /\ hostMethods = [h \in Hosts |-> Verbs]
  /\ files \in [FileIds -> FileShapes]
  /\ errs = [e \in ErrIds |-> FreshErr]
  /\ pending = {}
  /\ calls = <<>>
  /\ heTrace = <<>>
  /\ raised = "none"

Commit(s) ==
  /\ s.ok
  /\ router' = s.router
  /\ files' = s.files
  /\ errs' = s.errs
  /\ pending' = s.pending
  /\ calls' = s.calls
  /\ heTrace' = s.heTrace
  /\ raised' = s.raised
  /\ UNCHANGED <<isTemplates, hostMethods>>

UserCb(k, h, v, f, hasCb) ==
  IF hasCb THEN <<Frame("user", k, h, v, f)>> ELSE NotCallable

\* A caller calls host.handle(verb, file[, cb]).
CallHandle(h, v, f, hasCb) ==
  /\ Len(calls) < MaxCalls
  /\ LET k == Len(calls) + 1
         s0 == [State(Quiet) EXCEPT !.calls = Append(@, NewCall("handle", h, v, f, hasCb))]
     IN Commit(Handle(s0, k, h, v, f, UserCb(k, h, v, f, hasCb), FALSE))

\* A caller calls host.handleOnce(verb, file[, cb]).
CallHandleOnce(h, v, f, hasCb, hasNext) ==
  /\ Len(calls) < MaxCalls
  /\ hasCb => ~hasNext
  /\ LET k == Len(calls) + 1
         s0 == [State(Env(hasNext, {}, <<>>)) EXCEPT !.calls = Append(@, NewCall("handleOnce", h, v, f, hasCb))]
     IN Commit(HandleOnce(s0, k, h, v, f, UserCb(k, h, v, f, hasCb)))

\* rethrow is called again only for a ReferenceError that rethrow threw.
Rethrows == {<<"ret">>, <<"throwErr">>} \cup
            {<<"throwRef", o>> : o \in RethrowOutcomes}

\* The environment answers that matter for an error e passed along a chain of
\* hosts: listeners are asked, and rethrow is tried, on a first sighting only.
FirstSighting(e) == e # NoErr /\ ~errs[e].handled
ListenersFor(e, hosts) == IF FirstSighting(e) THEN SUBSET hosts ELSE {{}}
RethrowsFor(e, isRef) ==
  IF FirstSighting(e) /\ (errs[e].isRef \/ isRef) THEN Rethrows ELSE {<<"ret">>}

\* The error object a step passes: an existing one, or the next new one.
ErrChoice(e, isRef) ==
  \/ e = NoErr /\ ~isRef
  \/ e \in ErrIds /\ errs[e].alloc /\ ~isRef
  \/ e \in ErrIds /\ ~errs[e].alloc /\ e = FreeErr(errs)

WithErr(s, e, isRef) ==
  IF e = NoErr \/ s.errs[e].alloc THEN s
  ELSE [s EXCEPT !.errs[e] = [FreshErr EXCEPT !.alloc = TRUE, !.isRef = isRef]]

\* A caller builds host.handleError(verb, file[, next]) and calls the result
\* with err (or with nothing).
CallHandleError(h, v, f, hasCb, hasNext, e, isRef) ==
  /\ Len(calls) < MaxCalls
  /\ hasCb => ~hasNext
  /\ ErrChoice(e, isRef)
  /\ \E ls \in ListenersFor(e, {h}), rt \in RethrowsFor(e, isRef) :
       LET k == Len(calls) + 1
           s0 == [WithErr(State(Env(hasNext, ls, rt)), e, isRef) EXCEPT
                    !.calls = Append(@, NewCall("handleError", h, v, f, hasCb))]
           s1 == Invoke(s0, <<Frame("herr", k, h, v, f)>> \o UserCb(k, h, v, f, hasCb),
                        IF e = NoErr THEN ArgsNone ELSE ArgsErr(e))
       IN Commit([s1 EXCEPT !.calls[k].threw = s1.raised])

\* A middleware of dispatch d calls next(): the router moves to the next one.
MwNext(d) ==
  /\ d \in pending
  /\ d.todo > 0
  /\ pending' = (pending \ {d}) \cup {[d EXCEPT !.todo = @ - 1]}
  /\ calls' = [calls EXCEPT ![d.call].mwHost = IF d.phase = "coll" THEN @ ELSE @ + 1,
                            ![d.call].mwColl = IF d.phase = "coll" THEN @ + 1 ELSE @]
  /\ heTrace' = <<>>
  /\ raised' = "none"
  /\ UNCHANGED <<isTemplates, router, hostMethods, files, errs>>

\* The router of dispatch d calls its completion callback.
Complete(s, d, e) ==
  LET s1 == [s EXCEPT !.pending = @ \ {d},
                      !.calls[d.call].stale =
                         @ \/ (e # NoErr /\ s.errs[e].handled),
                      !.calls[d.call].hostDone = @ \/ d.phase # "coll",
                      !.calls[d.call].hostErr = IF d.phase # "coll" THEN e ELSE @,
                      !.calls[d.call].collErr = IF d.phase = "coll" THEN e ELSE @]
      s2 == Invoke(s1, d.done, IF e = NoErr THEN ArgsNone ELSE ArgsErr(e))
  IN [s2 EXCEPT !.calls[d.call].threw = IF s2.raised = "none" THEN @ ELSE s2.raised]

\* Every middleware of dispatch d has run: the router calls done().
RouterDone(d) ==
  /\ d \in pending
  /\ d.todo = 0
  /\ Commit(Complete(State(Quiet), d, NoErr))

\* A middleware of dispatch d calls next(err), with a new error object or one
\* that exists already: the router skips the rest and calls done(err).
MwError(d, e, isRef) ==
  /\ d \in pending
  /\ d.todo > 0
  /\ e # NoErr
  /\ ErrChoice(e, isRef)
  /\ \E ls \in ListenersFor(e, {d.host, "app"}), rt \in RethrowsFor(e, isRef) :
       LET s0 == [WithErr(State(Env(FALSE, ls, rt)), e, isRef) EXCEPT
                    !.calls[d.call].mwHost = IF d.phase = "coll" THEN @ ELSE @ + 1,
                    !.calls[d.call].mwColl = IF d.phase = "coll" THEN @ + 1 ELSE @]
       IN Commit(Complete(s0, d, e))

\* Routes are registered before the first file is dispatched.
SetupPhase == calls = <<>>

\* route(path), lines 200-203: the router is made if needed and hands out
\* the route for path.
route(r, p) == lazyRouter(r)

\* A verb method that registers its handlers for every verb of the route.
RouteVerbEvery(r, p, verb, hs) ==
  [r EXCEPT !.routes[p] = [v \in VerbNames |-> r.routes[p][v] \o hs]]

\* route[verb](h1, ..., hn), line 304: the handlers join the stack of the
\* route for that verb, in the order given.
RouteVerb(r, p, verb, hs) == [r EXCEPT !.routes[p][verb] = @ \o hs]

\* route.all(fn), line 255: fn joins the stack of the route for every verb.
RouteAll(r, p, hs) ==
  [r EXCEPT !.routes[p] = [v \in VerbNames |-> r.routes[p][v] \o hs]]

\* A registration step touches the routers and the host methods only.
Registration ==
  /\ heTrace' = <<>>
  /\ raised' = "none"
  /\ UNCHANGED <<isTemplates, files, errs, pending, calls>>

\* host.all(path, fn), lines 252-257: the route for path gets one more
\* middleware for every verb.
All(h, p) ==
  /\ SetupPhase
  /\ \A v \in VerbNames : Len(router[h].routes[p][v]) < MaxStack
  /\ router' = [router EXCEPT ![h] =
                  RouteAll(route(lazyRouter(@), p), p, <<"fn">>)]
  /\ UNCHANGED hostMethods
  /\ Registration

Next ==
  \/ \E h \in Callers, v \in Verbs, f \in FileIds, hasCb \in BOOLEAN :
        CallHandle(h, v, f, hasCb)
  \/ \E h \in Callers, v \in Verbs, f \in FileIds, hasCb \in BOOLEAN,
        hasNext \in BOOLEAN : CallHandleOnce(h, v, f, hasCb, hasNext)
  \/ \E h \in Callers, v \in Verbs, f \in FileIds, hasCb \in BOOLEAN,
        hasNext \in BOOLEAN, e \in {NoErr} \cup ErrIds, isRef \in BOOLEAN :
        CallHandleError(h, v, f, hasCb, hasNext, e, isRef)
  \/ \E d \in pending : MwNext(d)
  \/ \E d \in pending : RouterDone(d)
  \/ \E d \in pending, e \in ErrIds, isRef \in BOOLEAN : MwError(d, e, isRef)
  \/ \E h \in Hosts, p \in Paths : All(h, p)

Spec == Init /\ [][Next]_vars

\* Every middleware reached calls its continuation, with an error or without,
\* and every router that has run its middleware calls done.
Progress ==
  \E d \in pending :
    \/ MwNext(d)
    \/ RouterDone(d)
    \/ \E e \in ErrIds, isRef \in BOOLEAN : MwError(d, e, isRef)

\* The handle calls of callers that pass a callback, and what follows them.
NextLive ==
  \/ \E h \in Callers, v \in Verbs, f \in FileIds : CallHandle(h, v, f, TRUE)
  \/ \E d \in pending : MwNext(d)
  \/ \E d \in pending : RouterDone(d)
  \/ \E d \in pending, e \in ErrIds, isRef \in BOOLEAN : MwError(d, e, isRef)
  \/ \E h \in Hosts, p \in Paths : All(h, p)

SpecLive == Init /\ [][NextLive]_vars /\ WF_vars(Progress)

\* ------------------------------------------------------------- registration
\* mixinHandlers(methods), lines 299-308: every name becomes a method of the
\* host.
mixinHandlers(hm, m) == hm \cup Range(arrayify(m))

\* host.lazyRouter(methods), lines 31-38.
LazyRouter(h, m) ==
  /\ router' = [router EXCEPT ![h] = lazyRouterMethods(@, m)]
  /\ UNCHANGED hostMethods
  /\ Registration

\* host.route(path), lines 200-203.
Route(h, p) ==
  /\ router' = [router EXCEPT ![h] = route(@, p)]
  /\ UNCHANGED hostMethods
  /\ Registration

\* host.param(name, fn), lines 228-232.
Param(h, n) ==
  /\ router' = [router EXCEPT ![h] = [lazyRouter(@) EXCEPT !.params = @ \cup {n}]]
  /\ UNCHANGED hostMethods
  /\ Registration

\* host.handlers(methods), lines 293-297.
handlers(h, m) ==
  /\ router' = [router EXCEPT ![h] = lazyRouterMethods(@, m)]
  /\ hostMethods' = [hostMethods EXCEPT ![h] = mixinHandlers(@, m)]
  /\ Registration

\* host.handler(method), lines 274-277.
handler(h, n) ==
  /\ router' = [router EXCEPT ![h] = lazyRouterMethods(@, Name(n))]
  /\ hostMethods' = [hostMethods EXCEPT ![h] = mixinHandlers(@, Name(n))]
  /\ Registration

\* host[verb](path, h1, ..., hn), lines 301-306: the method mixinHandlers
\* defined for verb.
VerbMethod(h, verb, p, hs) ==
  /\ verb \in hostMethods[h]
  /\ Len(router[h].routes[p][verb]) + Len(hs) <= MaxHandlers
  /\ router' = [router EXCEPT ![h] = RouteVerb(route(@, p), p, verb, hs)]
  /\ UNCHANGED hostMethods
  /\ Registration

MethodArgs == {Name("onFoo"), Names(<<"onFoo", "onLoad">>)}
HandlerLists == {<<"h1">>, <<"h1", "h2">>}

\* Routes and verbs are registered at any time, around a dispatch whose
\* middleware all call next().
NextRoutes ==
  \/ \E h \in Callers, m \in MethodArgs \cup {Undefined} : LazyRouter(h, m)
  \/ \E h \in Callers, p \in Paths : Route(h, p)
  \/ \E h \in Callers, n \in ParamNames : Param(h, n)
  \/ \E h \in Callers, p \in Paths : All(h, p)
  \/ \E h \in Callers, m \in MethodArgs : handlers(h, m)
  \/ \E h \in Callers, n \in VerbNames : handler(h, n)
  \/ \E h \in Callers, v \in VerbNames, p \in Paths, hs \in HandlerLists :
        VerbMethod(h, v, p, hs)
  \/ \E h \in Callers, v \in Verbs, f \in FileIds :
        Len(calls) < MaxRouteCalls /\ CallHandle(h, v, f, TRUE)
  \/ \E h \in Callers, v \in Verbs, f \in FileIds :
        Len(calls) < MaxRouteCalls /\ CallHandleOnce(h, v, f, TRUE, FALSE)
  \/ \E d \in pending : MwNext(d)
  \/ \E d \in pending : RouterDone(d)

SpecRoutes == Init /\ [][NextRoutes]_vars


\* ------------------------------------------------------------- claims
Call(k) == calls[k]
CallIds == DOMAIN calls
\* No router dispatch of call k is still running.
Settled(k) == Call(k).dispatches > 0 /\ \A d \in pending : d.call # k
Failed(k) == Call(k).hostErr # NoErr \/ Call(k).collErr # NoErr
HasDuplicate(seq) == \E i, j \in 1..Len(seq) : i < j /\ seq[i] = seq[j]

\* C1: a handle(v, f, cb) call with a caller-supplied cb, direct or two-phase:
\* when every middleware succeeded cb was called once with (null, f); when a
\* middleware of the host router or of the collection router passed an error
\* (one not yet handled), cb was called once with a non-empty error.
C1_ErrorsReachCallback ==
  \A k \in CallIds :
    (Call(k).op = "handle" /\ Call(k).hasCb /\ Settled(k) /\ ~Call(k).stale) =>
      IF Failed(k)
      THEN Len(Call(k).cbArgs) = 1 /\ Call(k).cbArgs[1].err # NoErr
      ELSE Call(k).cbArgs = <<ArgsOk(Call(k).file)>>

\* C2: in two-phase dispatch the collection's handle starts only after the host
\* router has called its completion callback, every host middleware having
\* run; no host-level dispatch of the call is running once it has started.
C2_HostBeforeCollection ==
  \A k \in CallIds :
    (Call(k).twoPhase /\ Call(k).collStarted) =>
      /\ Call(k).hostDone
      /\ Call(k).mwHost = Call(k).hostStack
      /\ \A d \in pending : d.call = k => d.phase = "coll"

C2_Witness ==
  \E k \in CallIds :
    /\ Call(k).twoPhase /\ Call(k).collStarted
    /\ Call(k).hostStack > 0 /\ Call(k).mwColl > 0

\* C3: in two-phase dispatch, when the host router completes with an error the
\* collection's handle is never invoked (one handle invocation, one verb event,
\* no collection middleware, one entry appended to handled by this call) and
\* the error goes to the host's normalized callback.
C3_HostErrorShortCircuits ==
  \A k \in CallIds :
    (Call(k).twoPhase /\ Call(k).hostErr # NoErr) =>
      /\ ~Call(k).collStarted
      /\ Call(k).handles = 1
      /\ Call(k).events = <<<<Call(k).host, Call(k).verb>>>>
      /\ Call(k).mwColl = 0
      /\ Call(k).dispatches = 1
      /\ Call(k).normalized = <<<<Call(k).host, Call(k).hostErr>>>>

C3_Witness ==
  \E k \in CallIds :
    /\ Call(k).twoPhase /\ Call(k).hostErr # NoErr
    /\ router["pages"].routes[files[Call(k).file].path][Call(k).verb] # <<>>

\* An earlier handleOnce of the same verb on the same file that did not raise.
OnceBefore(k) ==
  {j \in CallIds : /\ j < k
                   /\ Call(j).op = "handleOnce" /\ Call(j).threw = "none"
                   /\ Call(j).verb = Call(k).verb /\ Call(j).file = Call(k).file}

OnlyOnce(f) ==
  \A k \in CallIds : Call(k).file = f => Call(k).op # "handle"
C5_HandledHasNoDuplicates ==
  \A f \in FileIds : OnlyOnce(f) => ~HasDuplicate(files[f].handled)


\* C6: handle(v, f, cb) leaves f.options.method = v and v in f.options.handled;
\* the options object the file had is kept (one is created only when it had
\* none), and so are the file's other fields.
HandleStep(k) == k \notin DOMAIN calls /\ calls'[k].op = "handle"
C6_HandleRecordsVerb ==
  [][\A k \in DOMAIN calls' :
       HandleStep(k) =>
         LET f == calls'[k].file
             v == calls'[k].verb
         IN /\ files'[f].method = v
            /\ \E i \in 1..Len(files'[f].handled) : files'[f].handled[i] = v
            /\ files'[f].hasOptions /\ files'[f].hasHandled
            /\ files'[f].optionsObj =
                 IF files[f].hasOptions THEN files[f].optionsObj ELSE "created"
            /\ files'[f].collection = files[f].collection
            /\ files'[f].path = files[f].path]_vars

C6_Witness ==
  \E k \in CallIds :
    /\ Call(k).op = "handle"
    /\ files[Call(k).file].optionsObj = "created"
    /\ files[Call(k).file].method = Call(k).verb

HeIds == DOMAIN heTrace
He(i) == heTrace[i]
SecondPass(i) == He(i).err # NoErr /\ He(i).before.handled
FirstPass(i) == He(i).err # NoErr /\ ~He(i).before.handled /\ He(i).resolvable

\* C7: a handleError callback given an error that was enriched before calls
\* next() with no arguments, leaves the error as the first enrichment set it,
\* emits no 'error' event and does not call rethrow.
C7_SecondPassIsNoOp ==
  \A i \in HeIds :
    SecondPass(i) =>
      /\ He(i).after = He(i).before
      /\ errs[He(i).err] = He(i).before
      /\ ~He(i).emitted
      /\ He(i).rethrow = "no"
      /\ He(i).resolvable => He(i).nextArgs = <<ArgsNone>>

C7_Witness ==
  \E i \in HeIds :
    /\ SecondPass(i) /\ He(i).resolvable
    /\ He(i).before.reason # <<He(i).host, He(i).verb, He(i).path>>

\* C8: a handleError callback with a resolvable next calls it exactly once:
\* with (null, file) when there is no error, and with an error (the original
\* or the one rethrow threw), never (null, file), on a first sighting.
C8_NextCalledOnce ==
  \A i \in HeIds :
    He(i).resolvable =>
      /\ Len(He(i).nextArgs) = 1
      /\ He(i).err = NoErr => He(i).nextArgs[1] = ArgsOk(He(i).file)
      /\ FirstPass(i) =>
           /\ He(i).nextArgs[1].argc = 1
           /\ He(i).nextArgs[1].err # NoErr
           /\ He(i).nextArgs[1].err \in {He(i).err, He(i).thrown}

C8_Witness ==
  \E i \in HeIds : FirstPass(i) /\ He(i).thrown # NoErr /\ Len(He(i).nextArgs) = 1

\* C9: on a first sighting, next gets the error rethrow threw when the error
\* is a ReferenceError and rethrow throws, the original when rethrow returns,
\* and the original, rethrow not being called, for any other error; the
\* original is marked handled and carries reason, source and file in all three.
C9_RethrowDecidesError ==
  \A i \in HeIds :
    FirstPass(i) =>
      /\ (He(i).before.isRef /\ Throws(He(i).rethrow)) =>
            /\ He(i).thrown \notin {NoErr, He(i).err}
            /\ He(i).nextArgs = <<ArgsErr(He(i).thrown)>>
      /\ (He(i).before.isRef /\ ~Throws(He(i).rethrow)) =>
            /\ He(i).rethrow = "ret"
            /\ He(i).nextArgs = <<ArgsErr(He(i).err)>>
      /\ ~He(i).before.isRef =>
            /\ He(i).rethrow = "no"
            /\ He(i).nextArgs = <<ArgsErr(He(i).err)>>
      /\ errs[He(i).err].handled
      /\ errs[He(i).err].reason = <<He(i).host, He(i).verb, He(i).path>>
      /\ errs[He(i).err].source = "stack[1]"
      /\ errs[He(i).err].file = He(i).file

C9_Witness ==
  \E i \in HeIds :
    /\ FirstPass(i) /\ He(i).before.isRef /\ Throws(He(i).rethrow)
    /\ Call(He(i).call).op = "handle"
    /\ Call(He(i).call).cbArgs = <<ArgsErr(He(i).thrown)>>

\* C10: handle(v, f) without a callback: when a middleware passes an error
\* the fallback runs and the error is raised again; when none does, nothing
\* is raised.
C10_FallbackReraises ==
  \A k \in CallIds :
    (Call(k).op = "handle" /\ ~Call(k).hasCb /\ Settled(k) /\ ~Call(k).stale) =>
      IF Failed(k)
      THEN Call(k).fallbackRan /\ Call(k).threw = "error"
      ELSE Call(k).threw = "none"


\* C11: a handleError callback with no callable next (neither the explicit
\* one nor file.next) raises a TypeError, with or without err, before any
\* enrichment: the error is left as it was, next is not called, no 'error'
\* event is emitted and rethrow is not tried.
C11_NoCallbackRaisesFirst ==
  \A i \in HeIds :
    ~He(i).resolvable =>
      /\ raised = "TypeError"
      /\ Call(He(i).call).threw = "TypeError"
      /\ He(i).after = He(i).before
      /\ He(i).err # NoErr => errs[He(i).err] = He(i).before
      /\ He(i).nextArgs = <<>>
      /\ Call(He(i).call).cbArgs = <<>>
      /\ ~He(i).emitted
      /\ He(i).rethrow = "no"

C11_Witness ==
  \E i \in HeIds :
    /\ ~He(i).resolvable
    /\ He(i).err # NoErr
    /\ errs[He(i).err].alloc /\ ~errs[He(i).err].handled
    /\ errs[He(i).err].reason = NoReason


\* seq continues old: what was registered is still there, in its place.
Extends(old, seq) ==
  Len(old) <= Len(seq) /\ SubSeq(seq, 1, Len(old)) = old

\* The router new is the router old with nothing taken away.
Keeps(old, new) ==
  /\ new.created
  /\ new.instance = old.instance
  /\ old.methods \subseteq new.methods
  /\ old.params \subseteq new.params
  /\ \A p \in Paths, v \in VerbNames : Extends(old.routes[p][v], new.routes[p][v])

\* C12: a host constructs its router at most once; whatever is called next
\* (lazyRouter, handle, handleOnce, route, param, all, handler, handlers, a verb
\* method), an existing router stays the same instance with every verb name,
\* param and route handler registered so far; lazyRouter(methods) on an
\* existing router adds the given verb names and nothing else.
C12_RouterMadeOnce ==
  /\ [](\A h \in Hosts : router[h].instance <= 1
                         /\ (router[h].created <=> router[h].instance = 1))
  /\ [][/\ \A h \in Hosts : router[h].created => Keeps(router[h], router'[h])
        /\ \A h \in Callers, m \in MethodArgs :
             (router[h].created /\ LazyRouter(h, m)) =>
                router'[h] = [router[h] EXCEPT
                                !.methods = @ \cup Range(m.items)]]_vars

C12_Witness ==
  /\ router["app"].created
  /\ router["app"].instance = 1
  /\ "onFoo" \in router["app"].methods
  /\ router["app"].params # {}
  /\ router["app"].routes["a.md"]["onFoo"] = <<"h1", "h2">>
  /\ router["pages"].created
  /\ \E k \in CallIds : Call(k).handles = 2


\* C13: handleOnce(v, f, cb) on a file that has no options.handled yet, a file
\* with no options at all included, creates options.handled, dispatches v
\* through handle and raises nothing.
C13_OnceNormalizesFile ==
  \A k \in CallIds :
    (Call(k).op = "handleOnce" /\ Call(k).hasCb /\ ~Call(k).hadHandled) =>
      /\ Call(k).threw = "none"
      /\ files[Call(k).file].hasHandled
      /\ Call(k).handles >= 1
      /\ Call(k).dispatches >= 1


C15_DirectDispatchOnce ==
  /\ \A k \in CallIds :
       LET c == Call(k)
           direct == \/ ~IsTemplates(c.host)
                     \/ IsCollection(c.host)
                     \/ files[c.file].collection = "none"
       IN c.handles >= 1 =>
            /\ direct => /\ ~c.twoPhase /\ ~c.collStarted
                         /\ c.handles = 1 /\ c.dispatches = 1
                         /\ c.events = <<<<c.host, c.verb>>>>
                         /\ \A d \in pending : d.call = k =>
                              d.phase = "direct" /\ d.host = c.host
            /\ ~direct => c.twoPhase
            /\ c.handles <= 2 /\ c.dispatches <= 2
            /\ c.collStarted => c.hostDone /\ c.handles = 2
  /\ \A d \in pending :
       /\ d.phase = "host" => Head(d.done).kind = "inner"
       /\ d.phase \in {"direct", "coll"} =>
            Head(d.done).kind = "herr" /\ Head(d.done).host = d.host
       /\ d.phase = "coll" =>
            IsCollection(d.host) /\ d.host = files[d.file].collection

C15_Witness ==
  \E d \in pending :
    /\ d.phase = "coll" /\ d.todo > 0
    /\ Call(d.call).handles = 2 /\ Call(d.call).dispatches = 2
    /\ Call(d.call).events = <<<<"app", d.verb>>, <<"pages", d.verb>>>>


\* verb is in file.options.handled.
Recorded(file, verb) ==
  file.hasHandled /\ \E i \in 1..Len(file.handled) : file.handled[i] = verb

\* C16: handleOnce(v, f, cb) with v already in options.handled changes nothing:
\* the file, the routers and the running dispatches stay as they are, no verb
\* event is emitted, nothing is raised, and cb has been called with (null, f)
\* when handleOnce returns.
C16_HandledOnceIsNoOp ==
  [][\A k \in DOMAIN calls' \ DOMAIN calls :
       LET c == calls'[k]
       IN (c.op = "handleOnce" /\ c.hasCb /\ Recorded(files[c.file], c.verb)) =>
            /\ files' = files
            /\ router' = router
            /\ pending' = pending
            /\ errs' = errs
            /\ raised' = "none" /\ c.threw = "none"
            /\ c.handles = 0 /\ c.dispatches = 0
            /\ c.events = <<>>
            /\ c.cbArgs = <<ArgsOk(c.file)>>
            /\ \A j \in DOMAIN calls : calls'[j] = calls[j]]_vars

C16_Witness ==
  \E k \in CallIds :
    /\ Call(k).op = "handleOnce" /\ Call(k).hasCb /\ Call(k).hadHandled
    /\ Call(k).handles = 0
    /\ Call(k).cbArgs = <<ArgsOk(Call(k).file)>>
    /\ files[Call(k).file].handled = <<Call(k).verb>>
    /\ \E j \in 1..(k - 1) :
         Call(j).op = "handle" /\ Call(j).verb = Call(k).verb /\ Settled(j)


\* An earlier call that dispatched verb v on file f.
DispatchedBefore(k, f, v) ==
  {j \in 1..(k - 1) :
     Call(j).file = f /\ Call(j).verb = v /\ Call(j).handles >= 1}

\* C17: handle records the verb in options.handled before it emits the verb
\* event and before it dispatches, so a handleOnce(v, f, cb2) issued while an
\* earlier handle or handleOnce of v on f is still in flight dispatches nothing
\* and calls cb2(null, f) at once, whether or not the first has completed.
C17_RecordedBeforeDispatch ==
  /\ \A k \in CallIds : \A i \in DOMAIN Call(k).emitSaw :
       \E n \in DOMAIN Call(k).emitSaw[i] : Call(k).emitSaw[i][n] = Call(k).verb
  /\ \A d \in pending : Recorded(files[d.file], d.verb)
  /\ \A k \in CallIds :
       (/\ Call(k).op = "handleOnce" /\ Call(k).hasCb
        /\ DispatchedBefore(k, Call(k).file, Call(k).verb) # {}) =>
          /\ Call(k).handles = 0 /\ Call(k).dispatches = 0
          /\ Call(k).mwHost = 0 /\ Call(k).mwColl = 0
          /\ Call(k).cbArgs = <<ArgsOk(Call(k).file)>>

C17_Witness ==
  \E k \in CallIds :
    /\ Call(k).op = "handleOnce" /\ Call(k).hasCb
    /\ Call(k).cbArgs = <<ArgsOk(Call(k).file)>>
    /\ \E j \in DispatchedBefore(k, Call(k).file, Call(k).verb) :
         /\ Call(j).hasCb /\ Call(j).cbArgs = <<>>
         /\ Call(j).mwHost = 0
         /\ \E d \in pending : d.call = j /\ d.todo > 0


\* C18: a dispatch that ended in an error still counts as handled: once a
\* handle or handleOnce of v on f has had a middleware pass an error, the verb
\* is still in options.handled, and a handleOnce(v, f, cb2) issued afterwards
\* starts no dispatch, runs no middleware and calls cb2(null, f).
C18_FailedStillHandled ==
  /\ [](\A j \in CallIds :
          Failed(j) => Recorded(files[Call(j).file], Call(j).verb))
  /\ [][\A k \in DOMAIN calls' \ DOMAIN calls :
          LET c == calls'[k]
          IN (/\ c.op = "handleOnce" /\ c.hasCb
              /\ \E j \in DispatchedBefore(k, c.file, c.verb) : Failed(j)) =>
               /\ c.handles = 0 /\ c.dispatches = 0
               /\ pending' = pending
               /\ files' = files
               /\ c.cbArgs = <<ArgsOk(c.file)>>]_vars

C18_Witness ==
  /\ Len(calls) = 2 /\ pending = {} /\ heTrace = <<>>
  /\ Call(2).op = "handleOnce" /\ Call(2).hasCb
  /\ Call(2).handles = 0 /\ Call(2).mwHost = 0 /\ Call(2).mwColl = 0
  /\ Call(2).cbArgs = <<ArgsOk(Call(2).file)>>
  /\ Call(1).verb = Call(2).verb /\ Call(1).file = Call(2).file
  /\ Call(1).hasCb /\ Failed(1)
  /\ Len(Call(1).cbArgs) = 1 /\ Call(1).cbArgs[1].err # NoErr


\* The handle invocations made on file f by the first k calls, the nested
\* collection-level ones included.
RECURSIVE HandlesOn(_, _)
HandlesOn(f, k) ==
  IF k = 0 THEN 0
  ELSE (IF Call(k).file = f THEN Call(k).handles ELSE 0) + HandlesOn(f, k - 1)

\* C19: on a file that started without options.handled and options.method,
\* after any handle and handleOnce calls, direct or two-phase: when handled is
\* not empty, options.method is its last element, and its length is the number
\* of handle invocations made on the file.
C19_MethodIsLastHandled ==
  \A f \in FileIds :
    /\ (files[f].hasHandled /\ files[f].handled # <<>>) =>
          files[f].method = files[f].handled[Len(files[f].handled)]
    /\ Len(files[f].handled) = HandlesOn(f, Len(calls))
    /\ files[f].handled = <<>> => files[f].method = "none"

C19_Witness ==
  \E f \in FileIds :
    /\ Len(files[f].handled) = 3
    /\ files[f].handled[1] = files[f].handled[2]
    /\ files[f].handled[3] # files[f].handled[1]
    /\ files[f].method = files[f].handled[3]
    /\ \E k \in CallIds : Call(k).op = "handleOnce" /\ Call(k).handles = 2


\* Call k is a handle call with a caller-supplied callback.
HandleWithCb(k) ==
  k \in DOMAIN calls /\ calls[k].op = "handle" /\ calls[k].hasCb

\* The callback of call k has been invoked once and no dispatch of the call
\* is left.
CalledBack(k) ==
  /\ k \in DOMAIN calls
  /\ Len(calls[k].cbArgs) = 1
  /\ \A d \in pending : d.call # k

\* C20: when every middleware reached calls its continuation, every
\* handle(v, f, cb) call comes to invoke cb, direct or two-phase, and never
\* more than once; while a dispatch of the call is still waiting for a
\* middleware, cb has not been invoked.
C20_CallbackEventually ==
  /\ \A k \in 1..MaxCalls :
       HandleWithCb(k) ~> CalledBack(k)
  /\ [](\A k \in 1..MaxCalls :
          HandleWithCb(k) =>
            /\ Len(calls[k].cbArgs) <= 1
            /\ (\E d \in pending : d.call = k) => calls[k].cbArgs = <<>>)

C20_Witness ==
  \E k \in CallIds :
    /\ HandleWithCb(k) /\ Call(k).twoPhase /\ Call(k).collStarted
    /\ Call(k).mwHost > 0 /\ Call(k).mwColl > 0
    /\ Settled(k)
    /\ Call(k).cbArgs = <<ArgsOk(Call(k).file)>>

====
